---- MODULE Spec2Model ----
(***************************************************************************)
(* Ships, shooting through space: a model of src/ship.py (Ship,            *)
(* PlayerShip, BulletEnemy) and src/projectiles.py (Bullet).               *)
(*                                                                         *)
(* One PlayerShip ("player") and one BulletEnemy ("enemy") that targets    *)
(* it.  A plain Ship is the PlayerShip without handle_input calls.         *)
(*                                                                         *)
(* Floats are fixed-point integers:                                        *)
(*   lengths     in quarter world units      (Units(1) = 4)                *)
(*   times       in quarter seconds          (Sec(1) = 4)                  *)
(*   velocities  in world units per second, so pos += vel * dt is exact    *)
(*   angles      in whole degrees                                          *)
(*   unit vectors (from_polar) in thousandths                              *)
(*   the frame counter time_until_next_shot in 1/80 frames (Frames(1)=80), *)
(*   so that the default shoot_cooldown 0.0125 is 1                        *)
(* Quotients are rounded to the nearest integer.                           *)
(***************************************************************************)
EXTENDS Integers, Sequences, FiniteSets, TLC

\* ------------------------------------------------------------------ units
Units(u) == 4 * u
Sec(s) == 4 * s
Frames(n) == 80 * n

\* ---------------------------------------------------- program constants
BULLET_SPEED == 300
HEAD_LENGTH == 3
ENEMY_SHOOT_RANGE == Units(400)
\* 0.75 s
DAMAGE_INDICATOR_TIME == (3 * Sec(1)) \div 4
\* 0.5 world units per step
SPEED == Units(1) \div 2
\* shoot(): self.gun_cooldown = 0.5
GUN_COOLDOWN == Sec(1) \div 2
\* BulletEnemy: self.action_timer = 6
ACTION_PERIOD == Sec(6)
INITIAL_AMMO == 1000
INITIAL_HEALTH == 10000
INITIAL_ANGLE == 270
\* Ship.__init__: self.thrust = 40 * self.mass
THRUST_PER_MASS == 40
ROTATION_THRUST == 100
\* BulletEnemy.__init__: self.time_until_next_shot = 20
FIRST_SHOT_DELAY == Frames(20)
\* shoot_cooldown: float = 0.0125
DEFAULT_SHOOT_COOLDOWN == Frames(1) \div 80
\* super().__init__(pos, vel, 1, 8, color)
ENEMY_DENSITY == 1
ENEMY_SIZE == 8

\* ---------------------------------------------------------------- Vec2
VAdd(a, b) == <<a[1] + b[1], a[2] + b[2]>>
VSub(a, b) == <<a[1] - b[1], a[2] - b[2]>>
VNeg(a) == <<-a[1], -a[2]>>
VScale(a, k) == <<a[1] * k, a[2] * k>>

Max(a, b) == IF a >= b THEN a ELSE b
Abs(a) == IF a >= 0 THEN a ELSE -a

\* a / b rounded to the nearest integer (b > 0), symmetric about 0
RoundDiv(a, b) ==
    IF a >= 0 THEN (2 * a + b) \div (2 * b) ELSE -((2 * (-a) + b) \div (2 * b))

VDiv(a, k) == <<RoundDiv(a[1], k), RoundDiv(a[2], k)>>

MagnitudeSquared(a) == a[1] * a[1] + a[2] * a[2]

\* the integer square root, by bisection
RECURSIVE IsqrtIn(_, _, _)
IsqrtIn(n, lo, hi) ==
    IF lo >= hi THEN lo
    ELSE LET mid == (lo + hi + 1) \div 2
         IN IF mid * mid <= n THEN IsqrtIn(n, mid, hi) ELSE IsqrtIn(n, lo, mid - 1)

Isqrt(n) == IsqrtIn(n, 0, 46340)

\* Vector2.magnitude(): 0 exactly for the zero vector
Magnitude(a) == Isqrt(MagnitudeSquared(a))

\* sin of 0..90 degrees, in thousandths
SinTable ==
    << 0, 17, 35, 52, 70, 87, 105, 122, 139, 156,
       174, 191, 208, 225, 242, 259, 276, 292, 309, 326,
       342, 358, 375, 391, 407, 423, 438, 454, 469, 485,
       500, 515, 530, 545, 559, 574, 588, 602, 616, 629,
       643, 656, 669, 682, 695, 707, 719, 731, 743, 755,
       766, 777, 788, 799, 809, 819, 829, 839, 848, 857,
       866, 875, 883, 891, 899, 906, 914, 921, 927, 934,
       940, 946, 951, 956, 961, 966, 970, 974, 978, 982,
       985, 988, 990, 993, 995, 996, 998, 999, 999, 1000,
       1000 >>

SinDeg(a) ==
    LET m == a % 360
    IN IF m <= 90 THEN SinTable[m + 1]
       ELSE IF m <= 180 THEN SinTable[180 - m + 1]
       ELSE IF m <= 270 THEN -SinTable[m - 180 + 1]
       ELSE -SinTable[360 - m + 1]

CosDeg(a) == SinDeg(a + 90)

\* the length of a from_polar((1, angle)) vector
One == SinDeg(90)

\* Vec2.from_polar((1, angle)): (cos angle, sin angle), angle in degrees
FromPolar(angle) == <<CosDeg(angle), SinDeg(angle)>>

\* math.degrees(math.atan2(y, x)), in (-180, 180], to the nearest degree
Atan2Deg(y, x) ==
    LET ax == Abs(x)
        ay == Abs(y)
        cross(a) == ay * CosDeg(a) - ax * SinDeg(a)
        lo == Cardinality({a \in 1..90 : cross(a) >= 0})
        a0 == IF lo < 90 /\ Abs(cross(lo + 1)) < Abs(cross(lo)) THEN lo + 1 ELSE lo
    IN IF x = 0 /\ y = 0 THEN 0
       ELSE IF x >= 0 /\ y >= 0 THEN a0
       ELSE IF x < 0 /\ y >= 0 THEN 180 - a0
       ELSE IF x < 0 THEN a0 - 180
       ELSE -a0

\* ------------------------------------------------------------- physics
\* physics.Disk.__init__: the disk's radius is its size; its mass grows
\* with density and area.  Only mass > 0 matters: thrust is 40 * mass and
\* apply_force divides by the mass again.
DiskMass(density, size) == density * size * size

\* physics: PhysicalObject.step(dt), pos += vel * dt
PhysicalStep(obj, dt) == [obj EXCEPT !.pos = VAdd(@, VScale(obj.vel, dt))]

\* physics: PhysicalObject.apply_force(force, dt), vel += force / mass * dt
ApplyForce(obj, force, dt) ==
    [obj EXCEPT !.vel = VAdd(@, VDiv(VScale(force, dt), obj.mass * Sec(1)))]

\* ---------------------------------------------------------- projectiles
\* Bullet.__init__(pos, vel, color)
Bullet(pos, vel, color) ==
    [pos |-> pos, vel |-> vel, mass |-> 1, color |-> "black"]

\* ------------------------------------------------------------------ Ship
\* Ship.__init__(pos, vel, density, size, color)
NewShip(pos, vel, density, size, color) ==
    [pos |-> pos, vel |-> vel, density |-> density, radius |-> Units(size),
     mass |-> DiskMass(density, size), color |-> color,
     size |-> size, angle |-> INITIAL_ANGLE, health |-> INITIAL_HEALTH,
     projectiles |-> <<>>, gun_cooldown |-> 0, has_trophy |-> FALSE,
     ammo |-> INITIAL_AMMO,
     thrust |-> THRUST_PER_MASS * DiskMass(density, size),
     rotation_thrust |-> ROTATION_THRUST,
     move_right |-> FALSE, move_left |-> FALSE,
     move_down |-> FALSE, move_up |-> FALSE,
     fuel_consumption_rate |-> 0, fuel_rot_consumption_rate |-> 0,
     damage_indicator_timer |-> 0]

\* Ship.get_faced_direction()
get_faced_direction(sh) == FromPolar(sh.angle)

\* shoot() with the bullet's velocity taken from the gun alone
shoot_ignoring_ship_velocity(sh) ==
    IF sh.gun_cooldown <= 0 /\ sh.ammo > 0
    THEN LET forward == get_faced_direction(sh)
             bullet_pos == VAdd(sh.pos,
                                VDiv(VScale(forward, sh.radius * HEAD_LENGTH), One))
             bullet_vel == VDiv(VScale(forward, BULLET_SPEED), One)
         IN [sh EXCEPT !.projectiles = Append(@, Bullet(bullet_pos, bullet_vel, sh.color)),
                       !.gun_cooldown = GUN_COOLDOWN,
                       !.ammo = @ - 1]
    ELSE sh

\* shoot() with either gate opening the gun
shoot_either_gate(sh) ==
    IF sh.gun_cooldown <= 0 \/ sh.ammo > 0
    THEN LET forward == get_faced_direction(sh)
             bullet_pos == VAdd(sh.pos,
                                VDiv(VScale(forward, sh.radius * HEAD_LENGTH), One))
             bullet_vel == VAdd(sh.vel, VDiv(VScale(forward, BULLET_SPEED), One))
         IN [sh EXCEPT !.projectiles = Append(@, Bullet(bullet_pos, bullet_vel, sh.color)),
                       !.gun_cooldown = GUN_COOLDOWN,
                       !.ammo = @ - 1]
    ELSE sh

\* shoot() without the ammunition check
shoot_without_ammo_check(sh) ==
    IF sh.gun_cooldown <= 0
    THEN LET forward == get_faced_direction(sh)
             bullet_pos == VAdd(sh.pos,
                                VDiv(VScale(forward, sh.radius * HEAD_LENGTH), One))
             bullet_vel == VAdd(sh.vel, VDiv(VScale(forward, BULLET_SPEED), One))
         IN [sh EXCEPT !.projectiles = Append(@, Bullet(bullet_pos, bullet_vel, sh.color)),
                       !.gun_cooldown = GUN_COOLDOWN,
                       !.ammo = @ - 1]
    ELSE sh

\* shoot() that does not pay for the shot
shoot_without_ammo_decrement(sh) ==
    IF sh.gun_cooldown <= 0 /\ sh.ammo > 0
    THEN LET forward == get_faced_direction(sh)
             bullet_pos == VAdd(sh.pos,
                                VDiv(VScale(forward, sh.radius * HEAD_LENGTH), One))
             bullet_vel == VAdd(sh.vel, VDiv(VScale(forward, BULLET_SPEED), One))
         IN [sh EXCEPT !.projectiles = Append(@, Bullet(bullet_pos, bullet_vel, sh.color)),
                       !.gun_cooldown = GUN_COOLDOWN]
    ELSE sh

\* Ship.shoot()
shoot(sh) ==
    IF sh.gun_cooldown <= 0 /\ sh.ammo > 0
    THEN LET forward == get_faced_direction(sh)
             bullet_pos == VAdd(sh.pos,
                                VDiv(VScale(forward, sh.radius * HEAD_LENGTH), One))
             bullet_vel == VAdd(sh.vel, VDiv(VScale(forward, BULLET_SPEED), One))
         IN [sh EXCEPT !.projectiles = Append(@, Bullet(bullet_pos, bullet_vel, sh.color)),
                       !.gun_cooldown = GUN_COOLDOWN,
                       !.ammo = @ - 1]
    ELSE sh

\* suffer_damage with the flash time added to what is left of it
suffer_damage_additive(sh, damage) ==
    IF damage > 0
    THEN [sh EXCEPT !.health = @ - damage,
                    !.damage_indicator_timer = @ + DAMAGE_INDICATOR_TIME]
    ELSE sh

\* suffer_damage refusing only a damage of 0
suffer_damage_healing(sh, damage) ==
    IF damage # 0
    THEN [sh EXCEPT !.health = @ - damage,
                    !.damage_indicator_timer = DAMAGE_INDICATOR_TIME]
    ELSE sh

\* Ship.suffer_damage(damage)
suffer_damage(sh, damage) ==
    IF damage > 0
    THEN [sh EXCEPT !.health = @ - damage,
                    !.damage_indicator_timer = DAMAGE_INDICATOR_TIME]
    ELSE sh

\* Ship.step(dt), lines 119-130: the movement flags nudge the position
nudge(sh) ==
    LET p1 == IF sh.move_right THEN VAdd(sh.pos, <<SPEED, 0>>) ELSE sh.pos
        p2 == IF sh.move_left THEN VAdd(p1, <<-SPEED, 0>>) ELSE p1
        p3 == IF sh.move_up THEN VAdd(p2, <<0, -SPEED>>) ELSE p2
        p4 == IF sh.move_down THEN VAdd(p3, <<0, SPEED>>) ELSE p3
    IN [sh EXCEPT !.pos = p4]

\* Ship.step(dt), line 133
decay_damage_indicator(sh, dt) ==
    [sh EXCEPT !.damage_indicator_timer = Max(0, @ - dt)]

\* the projectiles stepped a second time in the same Ship.step
step_projectiles_twice(sh, dt) ==
    [sh EXCEPT !.projectiles =
        [i \in DOMAIN @ |-> PhysicalStep(PhysicalStep(@[i], dt), dt)]]

\* Ship.step(dt), lines 137-138: every owned projectile steps
step_projectiles(sh, dt) ==
    [sh EXCEPT !.projectiles = [i \in DOMAIN @ |-> PhysicalStep(@[i], dt)]]

\* the gun's cooldown decaying twice as fast as time passes
decay_gun_cooldown_twice_as_fast(sh, dt) ==
    [sh EXCEPT !.gun_cooldown = Max(0, @ - 2 * dt)]

\* the gun's cooldown decayed without the floor
decay_gun_cooldown_unclamped(sh, dt) == [sh EXCEPT !.gun_cooldown = @ - dt]

\* Ship.step(dt), line 140
decay_gun_cooldown(sh, dt) == [sh EXCEPT !.gun_cooldown = Max(0, @ - dt)]

\* Ship.step with the flags' nudge scaled by dt, as a velocity would be
step_with_nudge_scaled_by_dt(sh, dt) ==
    LET scaled == VDiv(VScale(VSub(nudge(sh).pos, sh.pos), dt), Sec(1))
        nudged == [sh EXCEPT !.pos = VAdd(@, scaled)]
    IN decay_gun_cooldown(
           step_projectiles(
               PhysicalStep(decay_damage_indicator(nudged, dt), dt), dt), dt)

\* Ship.step(dt)
step(sh, dt) ==
    decay_gun_cooldown(
        step_projectiles(
            PhysicalStep(decay_damage_indicator(nudge(sh), dt), dt), dt), dt)

\* ------------------------------------------------------------ PlayerShip
\* ShipInput(move_right, move_left, move_up, move_down, shoot)
ShipInput(move_right, move_left, move_up, move_down, shoot_key) ==
    [move_right |-> move_right, move_left |-> move_left, move_up |-> move_up,
     move_down |-> move_down, shoot |-> shoot_key]

\* handle_input only ever setting the flags, never clearing them
handle_input_sticky_flags(sh, spaceship_input, keys) ==
    LET flagged == [sh EXCEPT !.move_right = @ \/ spaceship_input.move_right \in keys,
                              !.move_left = @ \/ spaceship_input.move_left \in keys,
                              !.move_up = @ \/ spaceship_input.move_up \in keys,
                              !.move_down = @ \/ spaceship_input.move_down \in keys]
    IN IF spaceship_input.shoot \in keys THEN shoot(flagged) ELSE flagged

\* PlayerShip.handle_input(keys); keys is the set of the pressed keys
handle_input(sh, spaceship_input, keys) ==
    LET flagged == [sh EXCEPT !.move_right = spaceship_input.move_right \in keys,
                              !.move_left = spaceship_input.move_left \in keys,
                              !.move_up = spaceship_input.move_up \in keys,
                              !.move_down = spaceship_input.move_down \in keys]
    IN IF spaceship_input.shoot \in keys THEN shoot(flagged) ELSE flagged

\* ----------------------------------------------------------- BulletEnemy
\* BulletEnemy.Action
Actions == {"accelerate_to_player", "accelerate_randomly", "decelerate"}

\* a target reference that is missing
None == "None"

\* BulletEnemy.__init__(pos, vel, target_ship, shoot_cooldown, color): the
\* Ship part and the fields the subclass adds
BulletEnemy(pos, vel, target_ship, shoot_cooldown, color) ==
    [ship |-> [NewShip(pos, vel, ENEMY_DENSITY, ENEMY_SIZE, color)
                   EXCEPT !.health = INITIAL_HEALTH, !.projectiles = <<>>],
     ai |-> [time_until_next_shot |-> FIRST_SHOT_DELAY,
             action_timer |-> ACTION_PERIOD,
             current_action |-> "accelerate_to_player",
             target_ship |-> target_ship,
             shoot_cooldown |-> shoot_cooldown]]

\* the re-roll carrying the timer's overshoot into the next period
tick_action_carry_overshoot(a, dt, roll) ==
    IF a.action_timer - dt <= 0
    THEN [a EXCEPT !.current_action = roll, !.action_timer = @ - dt + ACTION_PERIOD]
    ELSE [a EXCEPT !.action_timer = @ - dt]

\* the re-roll without the timer's reset
tick_action_no_reset(a, dt, roll) ==
    IF a.action_timer - dt <= 0
    THEN [a EXCEPT !.current_action = roll, !.action_timer = @ - dt]
    ELSE [a EXCEPT !.action_timer = @ - dt]

\* BulletEnemy.step, lines 376-381; roll is what random.choices draws
tick_action(a, dt, roll) ==
    IF a.action_timer - dt <= 0
    THEN [a EXCEPT !.current_action = roll, !.action_timer = ACTION_PERIOD]
    ELSE [a EXCEPT !.action_timer = @ - dt]

\* BulletEnemy.step, lines 385-392; rnd is what the two random.uniform draw
force_direction(action, delta_target_ship, vel, rnd) ==
    CASE action = "accelerate_to_player" -> delta_target_ship
      [] action = "accelerate_randomly" -> rnd
      [] action = "decelerate" -> VNeg(vel)

\* the shooting logic comparing the squared distance with the range itself
shooting_logic_unsquared_range(self, a, delta_target_ship) ==
    LET counted == [a EXCEPT !.time_until_next_shot = @ - Frames(1)]
    IN IF /\ MagnitudeSquared(delta_target_ship) < ENEMY_SHOOT_RANGE
          /\ counted.time_until_next_shot <= 0
       THEN [self |-> shoot(self),
             ai |-> [counted EXCEPT !.time_until_next_shot = a.shoot_cooldown],
             err |-> "none"]
       ELSE [self |-> self, ai |-> counted, err |-> "none"]

\* the shooting logic resetting the counter only when the shot was fired
shooting_logic_reset_on_fire_only(self, a, delta_target_ship) ==
    LET counted == [a EXCEPT !.time_until_next_shot = @ - Frames(1)]
        shot == shoot(self)
    IN IF /\ MagnitudeSquared(delta_target_ship) < ENEMY_SHOOT_RANGE * ENEMY_SHOOT_RANGE
          /\ counted.time_until_next_shot <= 0
       THEN [self |-> shot,
             ai |-> IF shot # self
                    THEN [counted EXCEPT !.time_until_next_shot = a.shoot_cooldown]
                    ELSE counted,
             err |-> "none"]
       ELSE [self |-> self, ai |-> counted, err |-> "none"]

\* the shooting logic opening the frame gate only below 0
shooting_logic_strict_gate(self, a, delta_target_ship) ==
    LET counted == [a EXCEPT !.time_until_next_shot = @ - Frames(1)]
    IN IF /\ MagnitudeSquared(delta_target_ship) < ENEMY_SHOOT_RANGE * ENEMY_SHOOT_RANGE
          /\ counted.time_until_next_shot < 0
       THEN [self |-> shoot(self),
             ai |-> [counted EXCEPT !.time_until_next_shot = a.shoot_cooldown],
             err |-> "none"]
       ELSE [self |-> self, ai |-> counted, err |-> "none"]

\* the shooting logic with the range's boundary in range
shooting_logic_inclusive_range(self, a, delta_target_ship) ==
    LET counted == [a EXCEPT !.time_until_next_shot = @ - Frames(1)]
    IN IF /\ MagnitudeSquared(delta_target_ship) <= ENEMY_SHOOT_RANGE * ENEMY_SHOOT_RANGE
          /\ counted.time_until_next_shot <= 0
       THEN [self |-> shoot(self),
             ai |-> [counted EXCEPT !.time_until_next_shot = a.shoot_cooldown],
             err |-> "none"]
       ELSE [self |-> self, ai |-> counted, err |-> "none"]

\* BulletEnemy.step, lines 399-406
shooting_logic(self, a, delta_target_ship) ==
    LET counted == [a EXCEPT !.time_until_next_shot = @ - Frames(1)]
    IN IF /\ MagnitudeSquared(delta_target_ship) < ENEMY_SHOOT_RANGE * ENEMY_SHOOT_RANGE
          /\ counted.time_until_next_shot <= 0
       THEN [self |-> shoot(self),
             ai |-> [counted EXCEPT !.time_until_next_shot = a.shoot_cooldown],
             err |-> "none"]
       ELSE [self |-> self, ai |-> counted, err |-> "none"]

\* BulletEnemy.step, lines 393-397
thrust_and_move(self, dir, dt) ==
    LET force == VDiv(VScale(dir, self.thrust), Magnitude(dir))
        moved == step(ApplyForce(self, force, dt), dt)
    IN [moved EXCEPT !.angle = Atan2Deg(moved.vel[2], moved.vel[1])]

\* BulletEnemy.step(dt).  target is <<the target ship's state>>, or <<>> when
\* the reference is missing.  The
\* result names the exception that ends the call, if one does; what the call
\* assigned before it stays assigned.
enemy_step(self, a, target, dt, roll, rnd) ==
    LET a1 == tick_action(a, dt, roll)
    IN IF target = <<>>
       THEN [self |-> self, ai |-> a1, err |-> "AttributeError"]
       ELSE LET delta_target_ship == VSub(target[1].pos, self.pos)
                dir == force_direction(a1.current_action, delta_target_ship,
                                       self.vel, rnd)
            IN IF Magnitude(dir) = 0
               THEN [self |-> self, ai |-> a1, err |-> "ZeroDivisionError"]
               ELSE shooting_logic(thrust_and_move(self, dir, dt), a1,
                                   delta_target_ship)

\* ================================================================= state
VARIABLES
    ships,      \* "player" |-> the PlayerShip, "enemy" |-> the BulletEnemy's Ship fields
    ai,         \* the fields BulletEnemy adds
    err,        \* the exception that ended the last call ("none": it returned)
    last,       \* the last call: its name, ship and argument, and what it did
    nsteps,     \* per ship, the step calls made
    elapsed,    \* per ship, the dt its step calls were given, summed
    rolled_at,  \* elapsed["enemy"] at the enemy's last re-roll (0: none yet)
    fired_at,   \* per ship, elapsed[s] when it last fired (-1: not yet)
    ops         \* the calls made, where the specification counts them

vars == <<ships, ai, err, last, nsteps, elapsed, rolled_at, fired_at, ops>>

ShipIds == {"player", "enemy"}

\* ---------------------------------------------------------------- bounds
MaxOps == 3
MaxTime == 50
BigDt == 25
BigDamage == 10001
\* SpecGate: the enemy's steps, their summed dt, and the player's steps
MaxGateSteps == 22
MaxGateTime == 2
MaxGatePlayerSteps == 1

\* SpecMove: the player's steps
MaxMoveSteps == 2

\* SpecGrow: the calls made
MaxGrowOps == 5

\* SpecFire: the enemy's steps and the player's steps
MaxFireSteps == 22
MaxFirePlayerSteps == 4

\* ---------------------------------------------------------------- inputs
DtValues == {1, Sec(3), BigDt}
DamageValues == {-5, 0, 7, BigDamage}
\* what random.uniform(-1, 1) twice can give, in thousandths
RandomDirections == {<<0, 0>>, <<-600, -800>>}
PlayerInput == ShipInput("K_d", "K_a", "K_w", "K_s", "K_SPACE")
KeyCodes == {"K_d", "K_a", "K_w", "K_s", "K_SPACE", "K_x"}
KeySets == {{}, {"K_d", "K_w"}, {"K_SPACE", "K_x"}, KeyCodes}
PlayerStarts == {<<0, 0>>}
PlayerVels == {<<0, 0>>}
PlayerSizes == {10}
\* the enemy's start and velocity: on its target and at rest, near and
\* approaching, at rest at exactly the shoot range (twice)
EnemyStarts ==
    {<<<<0, 0>>, <<0, 0>>>>,
     <<<<Units(100), 0>>, <<-20, 0>>>>,
     <<<<Units(400), 0>>, <<0, 0>>>>,
     <<<<Units(240), Units(320)>>, <<0, 0>>>>}
ShootCooldowns == {DEFAULT_SHOOT_COOLDOWN}

Call(op, ship, arg) ==
    [op |-> op, ship |-> ship, arg |-> arg, rolled |-> FALSE, fired |-> FALSE,
     far |-> FALSE]

\* ------------------------------------------------------------------ Init
InitWith(starts) ==
    \E ppos \in PlayerStarts, pvel \in PlayerVels, psize \in PlayerSizes,
       start \in starts, cd \in ShootCooldowns :
        LET e == BulletEnemy(start[1], start[2], "player", cd, "lime")
        IN /\ ships = [player |-> NewShip(ppos, pvel, 1, psize, "white"),
                       enemy |-> e.ship]
           /\ ai = e.ai
           /\ err = "none"
           /\ last = Call("init", "none", 0)
           /\ nsteps = [s \in ShipIds |-> 0]
           /\ elapsed = [s \in ShipIds |-> 0]
           /\ rolled_at = 0
           /\ fired_at = [s \in ShipIds |-> -1]
           /\ ops = 0

Init == InitWith(EnemyStarts)

\* --------------------------------------------------------------- actions
Grew(s) == Len(ships'[s].projectiles) > Len(ships[s].projectiles)

\* the history of the shots: a ship that fires in this step fires at its
\* elapsed time, the dt of this step counted
Track ==
    fired_at' = [s \in ShipIds |->
                    IF Grew(s) THEN elapsed'[s] ELSE fired_at[s]]

\* a call of ships[s].shoot()
Shoot(s) ==
    /\ err = "none"
    /\ ships' = [ships EXCEPT ![s] = shoot(@)]
    /\ last' = [Call("shoot", s, 0) EXCEPT !.fired = Grew(s)]
    /\ UNCHANGED <<ai, err, nsteps, elapsed, rolled_at>>
    /\ Track

\* a call of ships[s].suffer_damage(damage)
SufferDamage(s, damage) ==
    /\ err = "none"
    /\ ships' = [ships EXCEPT ![s] = suffer_damage(@, damage)]
    /\ last' = Call("suffer_damage", s, damage)
    /\ UNCHANGED <<ai, err, nsteps, elapsed, rolled_at>>
    /\ Track

\* a call of the player's handle_input(keys)
HandleInput(keys) ==
    /\ err = "none"
    /\ ships' = [ships EXCEPT !["player"] = handle_input(@, PlayerInput, keys)]
    /\ last' = [Call("handle_input", "player", keys) EXCEPT !.fired = Grew("player")]
    /\ UNCHANGED <<ai, err, nsteps, elapsed, rolled_at>>
    /\ Track

\* a call of the player's step(dt): Ship.step
ShipStep(dt) ==
    /\ err = "none"
    /\ ships' = [ships EXCEPT !["player"] = step(@, dt)]
    /\ last' = Call("step", "player", dt)
    /\ nsteps' = [nsteps EXCEPT !["player"] = @ + 1]
    /\ elapsed' = [elapsed EXCEPT !["player"] = @ + dt]
    /\ UNCHANGED <<ai, err, rolled_at>>
    /\ Track

\* the step given dt draws a new action: what random.choices returns shows
Rerolls(dt) ==
    \E r1, r2 \in Actions : tick_action(ai, dt, r1) # tick_action(ai, dt, r2)

\* a call of the enemy's step(dt): BulletEnemy.step
EnemyStep(dt, roll, rnd) ==
    /\ err = "none"
    /\ LET target == IF ai.target_ship = None THEN <<>> ELSE <<ships[ai.target_ship]>>
           r == enemy_step(ships["enemy"], ai, target, dt, roll, rnd)
       IN /\ ships' = [ships EXCEPT !["enemy"] = r.self]
          /\ ai' = r.ai
          /\ err' = r.err
          /\ last' = [Call("enemy_step", "enemy", dt) EXCEPT
                        !.rolled = Rerolls(dt),
                        !.fired = Grew("enemy"),
                        !.far = /\ target # <<>>
                                /\ MagnitudeSquared(VSub(target[1].pos, ships["enemy"].pos))
                                     >= ENEMY_SHOOT_RANGE * ENEMY_SHOOT_RANGE]
    /\ nsteps' = [nsteps EXCEPT !["enemy"] = @ + 1]
    /\ elapsed' = [elapsed EXCEPT !["enemy"] = @ + dt]
    /\ rolled_at' = IF Rerolls(dt) THEN elapsed["enemy"] + dt ELSE rolled_at
    /\ Track

\* the scene removes the enemy's target: the reference goes missing
RemoveTarget ==
    /\ err = "none"
    /\ ai.target_ship # None
    /\ ai' = [ai EXCEPT !.target_ship = None]
    /\ last' = Call("remove_target", "enemy", 0)
    /\ UNCHANGED <<ships, err, nsteps, elapsed, rolled_at>>
    /\ Track

\* what random.choices can draw in a step given dt: it is called only when
\* the step re-rolls
RollDraws(dt) == IF Rerolls(dt) THEN Actions ELSE {ai.current_action}

\* what the random.uniform pair can draw: called only in accelerate_randomly
UniformDraws(action) ==
    IF action = "accelerate_randomly" THEN RandomDirections ELSE {<<0, 0>>}

CanStep(s, dt) == elapsed[s] + dt <= MaxTime

\* a call the specification counts
Counted == ops < MaxOps /\ ops' = ops + 1

Next ==
    \/ \E s \in ShipIds : Counted /\ Shoot(s)
    \/ \E s \in ShipIds, damage \in DamageValues : Counted /\ SufferDamage(s, damage)
    \/ \E keys \in KeySets : Counted /\ HandleInput(keys)
    \/ \E dt \in DtValues : Counted /\ CanStep("player", dt) /\ ShipStep(dt)
    \/ \E dt \in DtValues : \E roll \in RollDraws(dt) : \E rnd \in UniformDraws(roll) :
          Counted /\ CanStep("enemy", dt) /\ EnemyStep(dt, roll, rnd)
    \/ Counted /\ RemoveTarget

Spec == Init /\ [][Next]_vars

\* ---------------------------------------------------------------------
\* The player empties its magazine: it shoots (directly or by the shoot key),
\* and steps by the gun's cooldown only while the gun cools, until the
\* ammunition is gone.
DrainKeySets == {{"K_SPACE"}, {"K_SPACE", "K_d", "K_a"}}

NextDrain ==
    \/ Shoot("player") /\ UNCHANGED ops
    \/ \E keys \in DrainKeySets : HandleInput(keys) /\ UNCHANGED ops
    \/ ships["player"].gun_cooldown > 0 /\ ShipStep(GUN_COOLDOWN) /\ UNCHANGED ops

InitDrain == InitWith({<<<<Units(400), 0>>, <<0, 0>>>>})

SpecDrain == InitDrain /\ [][NextDrain]_vars

\* ---------------------------------------------------------------------
\* The enemy steps through its first-shot delay and beyond, in frames of
\* dt 0 or 0.25 s, near its target and at the edge of its range; the player
\* may step closer, and shoot() may be called on the enemy at any time.
GateDt == {0, 1}
GateKeySets == {{"K_d"}}

NextGate ==
    \/ \E dt \in GateDt : \E roll \in RollDraws(dt) : \E rnd \in UniformDraws(roll) :
          /\ nsteps["enemy"] < MaxGateSteps
          /\ elapsed["enemy"] + dt <= MaxGateTime
          /\ EnemyStep(dt, roll, rnd)
          /\ UNCHANGED ops
    \/ Shoot("enemy") /\ UNCHANGED ops
    \/ \E keys \in GateKeySets : HandleInput(keys) /\ UNCHANGED ops
    \/ nsteps["player"] < MaxGatePlayerSteps /\ ShipStep(0) /\ UNCHANGED ops

InitGate ==
    InitWith({<<<<Units(100), 0>>, <<-20, 0>>>>,
              <<<<Units(400), 0>>, <<0, 0>>>>,
              <<<<Units(240), Units(320)>>, <<0, 0>>>>})

SpecGate == InitGate /\ [][NextGate]_vars

\* ---------------------------------------------------------------------
\* The player drifts while its movement keys are pressed and released in
\* every combination, and steps by short and long dt.
MoveVels == {<<0, 0>>, <<12, -8>>}
MoveKeySets == SUBSET {"K_d", "K_a", "K_w", "K_s"}

NextMove ==
    \/ \E keys \in MoveKeySets : HandleInput(keys) /\ UNCHANGED ops
    \/ \E dt \in DtValues :
          nsteps["player"] < MaxMoveSteps /\ ShipStep(dt) /\ UNCHANGED ops

InitMove ==
    \E pvel \in MoveVels :
        LET e == BulletEnemy(<<Units(400), 0>>, <<0, 0>>, "player",
                             DEFAULT_SHOOT_COOLDOWN, "lime")
        IN /\ ships = [player |-> NewShip(<<0, 0>>, pvel, 1, 10, "white"),
                       enemy |-> e.ship]
           /\ ai = e.ai
           /\ err = "none"
           /\ last = Call("init", "none", 0)
           /\ nsteps = [s \in ShipIds |-> 0]
           /\ elapsed = [s \in ShipIds |-> 0]
           /\ rolled_at = 0
           /\ fired_at = [s \in ShipIds |-> -1]
           /\ ops = 0

SpecMove == InitMove /\ [][NextMove]_vars

\* ---------------------------------------------------------------------
\* Both ships, the enemy in range and approaching, take a few calls of every
\* operation, with steps as long as the gun's cooldown, so that they fire
\* again and act with several projectiles in flight.
GrowKeySets == {{"K_SPACE", "K_d"}}
GrowDamage == {7}

GrowCounted == ops < MaxGrowOps /\ ops' = ops + 1

NextGrow ==
    \/ \E s \in ShipIds : GrowCounted /\ Shoot(s)
    \/ \E s \in ShipIds, damage \in GrowDamage : GrowCounted /\ SufferDamage(s, damage)
    \/ \E keys \in GrowKeySets : GrowCounted /\ HandleInput(keys)
    \/ GrowCounted /\ ShipStep(GUN_COOLDOWN)
    \/ \E roll \in RollDraws(GUN_COOLDOWN) : \E rnd \in UniformDraws(roll) :
          GrowCounted /\ EnemyStep(GUN_COOLDOWN, roll, rnd)

InitGrow == InitWith({<<<<Units(100), 0>>, <<-20, 0>>>>})

SpecGrow == InitGrow /\ [][NextGrow]_vars

\* ---------------------------------------------------------------------
\* Each ship steps at a frame time of its own, the same in all its steps;
\* the player keeps its shoot key down, and the enemy, in range, comes
\* through its first-shot delay and fires by itself.
FirePlayerDts == {1, 2, 3}
FireEnemyDts == {1, 2}
FireKeySets == {{"K_SPACE"}}

\* dt is the dt of all steps that ship s has made
SameDt(s, dt) == elapsed[s] = nsteps[s] * dt

NextFire ==
    \/ \E keys \in FireKeySets : HandleInput(keys) /\ UNCHANGED ops
    \/ \E dt \in FirePlayerDts :
          /\ nsteps["player"] < MaxFirePlayerSteps
          /\ SameDt("player", dt)
          /\ ShipStep(dt)
          /\ UNCHANGED ops
    \/ \E dt \in FireEnemyDts : \E roll \in RollDraws(dt) : \E rnd \in UniformDraws(roll) :
          /\ nsteps["enemy"] < MaxFireSteps
          /\ SameDt("enemy", dt)
          /\ EnemyStep(dt, roll, rnd)
          /\ UNCHANGED ops

InitFire == InitWith({<<<<Units(100), 0>>, <<-20, 0>>>>})

SpecFire == InitFire /\ [][NextFire]_vars

\* ================================================================ claims
\* the step just taken is a call of op on ship s
Called(op, s) == last'.op = op /\ last'.ship = s

\* ship s but for its movement flags
Unflagged(sh) ==
    [sh EXCEPT !.move_right = FALSE, !.move_left = FALSE,
               !.move_up = FALSE, !.move_down = FALSE]

\* C1: a shoot() call made with gun_cooldown <= 0 and ammo > 0 appends exactly
\* one projectile, at pos + facing * radius * HEAD_LENGTH with velocity
\* vel + facing * 300, sets gun_cooldown to 0.5 and lowers ammo by 1; facing
\* angle 0 it is at (pos.x + radius * 3, pos.y) with velocity (vel.x + 300, vel.y).
C1_ShootFires ==
    [][\A s \in ShipIds :
         (Called("shoot", s) /\ ships[s].gun_cooldown <= 0 /\ ships[s].ammo > 0) =>
            LET old == ships[s]
                new == ships'[s]
                facing == FromPolar(old.angle)
                n == Len(old.projectiles)
                b == new.projectiles[n + 1]
            IN /\ Len(new.projectiles) = n + 1
               /\ SubSeq(new.projectiles, 1, n) = old.projectiles
               /\ b.pos = VAdd(old.pos, VDiv(VScale(facing, old.radius * HEAD_LENGTH), 1000))
               /\ b.vel = VAdd(old.vel, VDiv(VScale(facing, 300), 1000))
               /\ old.angle = 0 =>
                    /\ b.pos = <<old.pos[1] + old.radius * 3, old.pos[2]>>
                    /\ b.vel = <<old.vel[1] + 300, old.vel[2]>>
               /\ new.gun_cooldown = Sec(1) \div 2
               /\ new.ammo = old.ammo - 1]_vars

\* a moving ship facing angle 0 has just fired by a shoot() call
C1_Witness ==
    \E s \in ShipIds :
        /\ last.op = "shoot" /\ last.ship = s /\ last.fired
        /\ ships[s].angle = 0
        /\ ships[s].vel # <<0, 0>>
        /\ Len(ships[s].projectiles) = 1

\* C2: a shoot() call made while gun_cooldown > 0 or ammo = 0 raises nothing
\* and changes no field of the ship; made through the shoot key it changes the
\* movement flags alone.  So calls between a shot and the end of its cooldown
\* add no projectile and cost no ammo.
C2_ShootRefused ==
    [][\A s \in ShipIds :
         (ships[s].gun_cooldown > 0 \/ ships[s].ammo = 0) =>
            /\ Called("shoot", s) => (ships' = ships /\ ai' = ai /\ err' = "none")
            /\ Called("handle_input", s) =>
                  /\ Unflagged(ships'[s]) = Unflagged(ships[s])
                  /\ err' = "none"]_vars

\* shoot() was called, and refused, with the gun cool and the magazine empty
C2_Witness ==
    /\ last.op = "shoot" /\ last.ship = "player" /\ ~last.fired
    /\ ships["player"].ammo = 0
    /\ ships["player"].gun_cooldown = 0
    /\ Len(ships["player"].projectiles) = INITIAL_AMMO

\* C3: ammo >= 0 in every reachable state, and no call gives a projectile to a
\* ship whose ammo is 0.
C3_AmmoFloor ==
    /\ [](\A s \in ShipIds : ships[s].ammo >= 0)
    /\ [][\A s \in ShipIds :
            ships[s].ammo = 0 =>
               /\ Len(ships'[s].projectiles) = Len(ships[s].projectiles)
               /\ ships'[s].ammo = 0]_vars

\* the player, its ammo spent, pressed the shoot key once the gun had cooled
C3_Witness ==
    /\ last.op = "handle_input" /\ "K_SPACE" \in last.arg /\ ~last.fired
    /\ ships["player"].ammo = 0
    /\ ships["player"].gun_cooldown = 0
    /\ nsteps["player"] = INITIAL_AMMO

\* C4: with every dt >= 0, gun_cooldown stays in [0, 0.5] and
\* damage_indicator_timer in [0, 0.75]: no step drives a timer below 0.
C4_TimersInRange ==
    \A s \in ShipIds :
        /\ 0 <= ships[s].gun_cooldown
        /\ ships[s].gun_cooldown <= Sec(1) \div 2
        /\ 0 <= ships[s].damage_indicator_timer
        /\ ships[s].damage_indicator_timer <= (3 * Sec(1)) \div 4

\* a ship that had shot and been hit took one step with a dt far beyond both
\* timers
C4_Witness ==
    \E s \in ShipIds :
        /\ last.op \in {"step", "enemy_step"} /\ last.ship = s /\ last.arg = BigDt
        /\ nsteps[s] = 1
        /\ Len(ships[s].projectiles) = 1
        /\ ships[s].health < INITIAL_HEALTH
        /\ ships[s].gun_cooldown = 0
        /\ ships[s].damage_indicator_timer = 0

\* C5: suffer_damage(d) with d > 0 lowers health by exactly d, with no floor,
\* and sets damage_indicator_timer to exactly 0.75 whatever it was.
C5_DamageResetsFlash ==
    [][\A s \in ShipIds :
         (Called("suffer_damage", s) /\ last'.arg > 0) =>
            /\ ships'[s] = [ships[s] EXCEPT
                              !.health = ships[s].health - last'.arg,
                              !.damage_indicator_timer = (3 * Sec(1)) \div 4]
            /\ err' = "none"]_vars

\* a ship hit a second time mid-flash, its health now below 0
C5_Witness ==
    \E s \in ShipIds :
        /\ last.op = "suffer_damage" /\ last.ship = s /\ last.arg > 0
        /\ ships[s].health = INITIAL_HEALTH - 7 - BigDamage
        /\ ships[s].health < 0
        /\ nsteps[s] = 1 /\ elapsed[s] = 1
        /\ ships[s].damage_indicator_timer = (3 * Sec(1)) \div 4

\* C6: suffer_damage(d) with d <= 0 changes no field of the ship: a negative
\* damage does not heal.
C6_NoDamageNoChange ==
    [][\A s \in ShipIds :
         (Called("suffer_damage", s) /\ last'.arg <= 0) =>
            (ships' = ships /\ ai' = ai /\ err' = "none")]_vars

\* suffer_damage(-5) on a ship already damaged and flashing
C6_Witness ==
    \E s \in ShipIds :
        /\ last.op = "suffer_damage" /\ last.ship = s /\ last.arg = -5
        /\ ships[s].health < INITIAL_HEALTH
        /\ ships[s].damage_indicator_timer > 0

\* the enemy's target, where the reference is not missing
TargetPos == ships[ai.target_ship].pos

\* the force direction the enemy's step just taken chose has zero magnitude:
\* decelerate at rest, or accelerate_to_player on the target's own position
ZeroDirection ==
    /\ ai.target_ship # None
    /\ \/ ai'.current_action = "decelerate" /\ ships["enemy"].vel = <<0, 0>>
       \/ ai'.current_action = "accelerate_to_player" /\ TargetPos = ships["enemy"].pos

\* C7: a BulletEnemy.step whose chosen force direction has zero magnitude
\* completes without a runtime failure and applies zero force for that tick.
C7_ZeroDirectionStep ==
    [][(Called("enemy_step", "enemy") /\ ZeroDirection) =>
          /\ err' = "none"
          /\ ships'["enemy"].vel = ships["enemy"].vel]_vars

\* C8: a BulletEnemy.step made after the target was removed does not fail: it
\* applies no force, does not fire, and the rest of the step (timers, physics,
\* projectiles) still runs.
C8_MissingTargetStep ==
    [][(Called("enemy_step", "enemy") /\ ai.target_ship = None) =>
          LET dt == last'.arg
              old == ships["enemy"]
              new == ships'["enemy"]
          IN /\ err' = "none"
             /\ new.vel = old.vel
             /\ Len(new.projectiles) = Len(old.projectiles)
             /\ new.pos = VAdd(old.pos, VScale(old.vel, dt))
             /\ new.gun_cooldown = Max(0, old.gun_cooldown - dt)
             /\ new.damage_indicator_timer = Max(0, old.damage_indicator_timer - dt)]_vars

\* C9: a BulletEnemy starts in accelerate_to_player and current_action is
\* always one of the three actions; a step re-draws it only if action_timer
\* minus the step's dt is <= 0, and then sets action_timer to exactly 6;
\* otherwise the step lowers action_timer by dt.  So current_action changes
\* only once the dt of the steps since the last re-roll (or since
\* construction) sums to at least 6 s.
C9_RerollTiming ==
    /\ [](/\ ai.current_action \in Actions
          /\ last.op = "init" => ai.current_action = "accelerate_to_player")
    /\ [][LET dt == elapsed'["enemy"] - elapsed["enemy"]
          IN /\ ~Called("enemy_step", "enemy") =>
                   /\ ai'.current_action = ai.current_action
                   /\ ai'.action_timer = ai.action_timer
             /\ Called("enemy_step", "enemy") =>
                   IF ai.action_timer - dt <= 0
                   THEN ai'.action_timer = Sec(6)
                   ELSE /\ ai'.current_action = ai.current_action
                        /\ ai'.action_timer = ai.action_timer - dt
                        /\ rolled_at' = rolled_at
             /\ ai'.current_action # ai.current_action =>
                   elapsed'["enemy"] - rolled_at >= Sec(6)]_vars

\* the enemy re-rolled twice, 6 s apart, and came out of the second re-roll
\* with another action
C9_Witness ==
    /\ last.op = "enemy_step" /\ last.rolled
    /\ nsteps["enemy"] = 3
    /\ elapsed["enemy"] = BigDt + Sec(6)
    /\ rolled_at = elapsed["enemy"]
    /\ ai.current_action # "accelerate_to_player"
    /\ ai.action_timer = Sec(6)

\* C10: a BulletEnemy.step that starts 400 units or more from the target adds
\* no projectile, whatever time_until_next_shot, gun_cooldown and ammo are, and
\* lowers time_until_next_shot by 1 frame without resetting it (a step that an
\* exception ends before its shooting logic leaves the counter as it was).
C10_OutOfRange ==
    [][(/\ Called("enemy_step", "enemy")
        /\ ai.target_ship # None
        /\ MagnitudeSquared(VSub(TargetPos, ships["enemy"].pos))
              >= Units(400) * Units(400)) =>
          /\ Len(ships'["enemy"].projectiles) = Len(ships["enemy"].projectiles)
          /\ ships'["enemy"].ammo = ships["enemy"].ammo
          /\ \/ ai'.time_until_next_shot = ai.time_until_next_shot - Frames(1)
             \/ err' # "none" /\ ai'.time_until_next_shot = ai.time_until_next_shot]_vars

\* the enemy, exactly 400 units from its target, its frame counter run out,
\* its gun cool and loaded, stepped and did not fire
C10_Witness ==
    /\ last.op = "enemy_step" /\ last.far /\ ~last.fired
    /\ ai.time_until_next_shot < 0
    /\ ships["enemy"].gun_cooldown = 0
    /\ ships["enemy"].ammo > 0
    /\ MagnitudeSquared(VSub(ships["player"].pos, ships["enemy"].pos))
         = Units(400) * Units(400)

\* the enemy, before the step, is nearer than 400 units to its target
InRange ==
    /\ ai.target_ship # None
    /\ MagnitudeSquared(VSub(TargetPos, ships["enemy"].pos)) < Units(400) * Units(400)

\* the gun's cooldown as the enemy's step leaves it before its shooting
\* logic runs: Ship.step has decayed it by the step's dt
DecayedGun == Max(0, ships["enemy"].gun_cooldown - last'.arg)

\* C11 as stated: a BulletEnemy.step that starts within 400 units of the
\* target with time_until_next_shot <= 0 adds exactly one projectile.
C11_FiresOnNextStep ==
    [][(Called("enemy_step", "enemy") /\ InRange /\ ai.time_until_next_shot <= 0) =>
          Len(ships'["enemy"].projectiles) = Len(ships["enemy"].projectiles) + 1]_vars

\* C11, amended: a BulletEnemy.step that starts within 400 units of the
\* target with time_until_next_shot <= 0 calls shoot(): it adds exactly one
\* projectile if the gun's cooldown, decayed by the step's dt, is 0 and ammo
\* is left, and none otherwise, and resets the counter either way; a step
\* that the zero force direction ends in ZeroDivisionError adds none.
C11_FiresWhenGunPermits ==
    [][(Called("enemy_step", "enemy") /\ InRange /\ ai.time_until_next_shot <= 0) =>
          LET old == ships["enemy"]
              new == ships'["enemy"]
          IN IF err' # "none"
             THEN new.projectiles = old.projectiles
             ELSE /\ ai'.time_until_next_shot = ai.shoot_cooldown
                  /\ IF DecayedGun <= 0 /\ old.ammo > 0
                     THEN /\ Len(new.projectiles) = Len(old.projectiles) + 1
                          /\ new.ammo = old.ammo - 1
                     ELSE /\ Len(new.projectiles) = Len(old.projectiles)
                          /\ new.ammo = old.ammo]_vars

\* the enemy's 21st step fired its first and only shot: its 20th step, the
\* gun cool, did not, so it ran out of range and left the counter at 0, and
\* the target came within range before the 21st
C11_Witness ==
    /\ last.op = "enemy_step" /\ last.fired
    /\ nsteps["enemy"] = 21
    /\ ships["enemy"].ammo = INITIAL_AMMO - 1
    /\ ai.time_until_next_shot = ai.shoot_cooldown

\* C12: a BulletEnemy.step adds a projectile only if time_until_next_shot,
\* lowered by 1, is <= 0 and gun_cooldown, decayed by the step's dt, is <= 0;
\* when the frame gate and the range pass but the decayed gun_cooldown is
\* > 0, the step adds no projectile, leaves ammo alone and still resets
\* time_until_next_shot to shoot_cooldown.
C12_BothGates ==
    [][Called("enemy_step", "enemy") =>
          LET old == ships["enemy"]
              new == ships'["enemy"]
              counted == ai.time_until_next_shot - Frames(1)
          IN /\ Grew("enemy") =>
                   /\ counted <= 0
                   /\ DecayedGun <= 0
                   /\ Len(new.projectiles) = Len(old.projectiles) + 1
             /\ (err' = "none" /\ InRange /\ counted <= 0 /\ DecayedGun > 0) =>
                   /\ Len(new.projectiles) = Len(old.projectiles)
                   /\ new.ammo = old.ammo
                   /\ ai'.time_until_next_shot = ai.shoot_cooldown]_vars

\* the enemy, in range and past its first-shot delay, stepped with its gun
\* still cooling and ammo left: it did not fire and its counter was reset
C12_Witness ==
    /\ last.op = "enemy_step" /\ ~last.fired /\ ~last.far
    /\ nsteps["enemy"] >= 20
    /\ ships["enemy"].gun_cooldown > 0
    /\ ships["enemy"].ammo > 0
    /\ ai.time_until_next_shot = ai.shoot_cooldown

\* C13: every projectile a ship owns, each made by that ship's shoot(),
\* carries the color of the ship.
C13_ProjectileColor ==
    \A s \in ShipIds : \A i \in DOMAIN ships[s].projectiles :
        ships[s].projectiles[i].color = ships[s].color

\* the displacement the movement flags of ship sh ask for
FlagNudge(sh) ==
    <<(IF sh.move_right THEN SPEED ELSE 0) - (IF sh.move_left THEN SPEED ELSE 0),
      (IF sh.move_down THEN SPEED ELSE 0) - (IF sh.move_up THEN SPEED ELSE 0)>>

C15_HandleInput ==
    [][Called("handle_input", "player") =>
          LET old == ships["player"]
              new == ships'["player"]
              keys == last'.arg
          IN /\ new.move_right = (PlayerInput.move_right \in keys)
             /\ new.move_left = (PlayerInput.move_left \in keys)
             /\ new.move_up = (PlayerInput.move_up \in keys)
             /\ new.move_down = (PlayerInput.move_down \in keys)
             /\ PlayerInput.shoot \notin keys => Unflagged(new) = Unflagged(old)
             /\ PlayerInput.shoot \in keys =>
                   IF old.gun_cooldown <= 0 /\ old.ammo > 0
                   THEN /\ Len(new.projectiles) = Len(old.projectiles) + 1
                        /\ new.ammo = old.ammo - 1
                        /\ new.gun_cooldown = GUN_COOLDOWN
                   ELSE Unflagged(new) = Unflagged(old)]_vars

\* the player, nudged away from its start by flags set earlier, was given
\* the shoot key alone among its mapped keys: the flags were cleared and it
\* fired once
C15_Witness ==
    LET p == ships["player"]
    IN /\ last.op = "handle_input" /\ last.arg = {"K_SPACE", "K_x"} /\ last.fired
       /\ p.pos # <<0, 0>>
       /\ ~p.move_right /\ ~p.move_left /\ ~p.move_up /\ ~p.move_down
       /\ Len(p.projectiles) = 1

\* the projectiles ps, each stepped once by dt, in their order
SteppedOnce(ps, dt) == [i \in DOMAIN ps |-> PhysicalStep(ps[i], dt)]

\* sequence ps begins with sequence qs
StartsWith(ps, qs) == Len(ps) >= Len(qs) /\ SubSeq(ps, 1, Len(qs)) = qs

\* ship s's Ship.step ran in the step just taken, and with which dt
ShipStepRan(s) ==
    \/ s = "player" /\ Called("step", "player")
    \/ s = "enemy" /\ Called("enemy_step", "enemy") /\ err' = "none"

\* shoot() was called on ship s in the step just taken
ShootCalled(s) ==
    \/ Called("shoot", s)
    \/ s = "player" /\ Called("handle_input", "player") /\ PlayerInput.shoot \in last'.arg
    \/ /\ s = "enemy" /\ Called("enemy_step", "enemy") /\ err' = "none"
       /\ InRange /\ ai.time_until_next_shot - Frames(1) <= 0

\* C16: a ship's projectile sequence only grows.  Every call leaves the
\* projectiles it had first in the new sequence, in their order, and adds at
\* most one, at the end, and only where shoot() is called with its gate
\* open.  A call that runs Ship.step (directly, or through BulletEnemy.step)
\* steps each of these projectiles exactly once by dt and moves the ship by
\* one physics step; every other call leaves them as they were.
C16_ProjectilesGrow ==
    [][\A s \in ShipIds :
          LET old == ships[s]
              new == ships'[s]
              dt == last'.arg
              kept == IF ShipStepRan(s) THEN SteppedOnce(old.projectiles, dt)
                      ELSE old.projectiles
          IN /\ StartsWith(new.projectiles, kept)
             /\ Len(new.projectiles) <= Len(old.projectiles) + 1
             /\ Grew(s) => ShootCalled(s) /\ new.ammo = old.ammo - 1
             /\ ShipStepRan(s) =>
                   new.pos = VAdd(VAdd(old.pos, FlagNudge(old)), VScale(new.vel, dt))]_vars

\* the enemy stepped with two projectiles in flight, fired at different
\* times and by now in different places
C16_Witness ==
    LET ps == ships["enemy"].projectiles
    IN /\ last.op = "enemy_step" /\ err = "none"
       /\ Len(ps) = 2
       /\ ps[1].pos # ps[2].pos
       /\ Len(ships["player"].projectiles) >= 1

\* C17: for every ship, ammo plus the number of its projectiles is always
\* 1000, the initial ammo; ammo changes only where a shoot() call fires, by
\* the 1 that pays for the projectile added: no step, damage or input without
\* a shot changes it.
C17_AmmoAccounting ==
    /\ [](\A s \in ShipIds :
             ships[s].ammo + Len(ships[s].projectiles) = INITIAL_AMMO)
    /\ [][\A s \in ShipIds :
             /\ ships'[s].ammo # ships[s].ammo =>
                   /\ ShootCalled(s)
                   /\ ships'[s].ammo = ships[s].ammo - 1
                   /\ Len(ships'[s].projectiles) = Len(ships[s].projectiles) + 1
             /\ Grew(s) => ships'[s].ammo = ships[s].ammo - 1]_vars

\* the enemy has fired twice and the player once, with steps and a refused
\* shot in between
C17_Witness ==
    /\ ships["enemy"].ammo = INITIAL_AMMO - 2
    /\ Len(ships["enemy"].projectiles) = 2
    /\ ships["player"].ammo = INITIAL_AMMO - 1
    /\ Len(ships["player"].projectiles) = 1
    /\ ships["player"].gun_cooldown > 0

\* a divided by b, rounded up
CeilDiv(a, b) == (a + b - 1) \div b

\* C18: when a ship that has fired before fires again, by the shoot key or
\* by the enemy's own step, the dt of the Ship.step cooldown decays since
\* the earlier shot sum to at least 0.5 s; all its steps having the same
\* dt > 0, at least ceil(0.5 / dt) of them lie between the two shots, however
\* often shoot() was attempted in between.
C18_ShotsApart ==
    [][\A s \in ShipIds :
          (Grew(s) /\ fired_at[s] >= 0) =>
              LET gap == elapsed'[s] - fired_at[s]
              IN /\ gap >= GUN_COOLDOWN
                 /\ nsteps'[s] > 0
                 /\ LET dt == elapsed'[s] \div nsteps'[s]
                    IN /\ dt > 0
                       /\ elapsed'[s] = nsteps'[s] * dt
                       /\ gap \div dt >= CeilDiv(GUN_COOLDOWN, dt)]_vars

\* the enemy, stepping by 0.25 s, fired in its 20th step, was refused in its
\* 21st and fired again in its 22nd, and the player has fired twice as well
C18_Witness ==
    /\ last.op = "enemy_step" /\ last.fired
    /\ nsteps["enemy"] = 22 /\ elapsed["enemy"] = 22
    /\ ships["enemy"].ammo = INITIAL_AMMO - 2
    /\ ships["player"].ammo = INITIAL_AMMO - 2
    /\ fired_at["enemy"] = 22

\* C19: action_timer is always above 0 and at most 6 s, also after a
\* BulletEnemy.step whose dt exceeds 6 s: a step that finds the timer, less
\* its dt, at or below 0 sets it to exactly 6 s, dropping the overshoot, and
\* draws the action once; any other step lowers the timer by dt.
C19_ActionTimerRange ==
    /\ [](0 < ai.action_timer /\ ai.action_timer <= Sec(6))
    /\ [][(Called("enemy_step", "enemy") /\ last'.arg >= 0) =>
            LET dt == last'.arg
            IN IF ai.action_timer - dt <= 0
               THEN ai'.action_timer = Sec(6) /\ last'.rolled
               ELSE ai'.action_timer = ai.action_timer - dt /\ ~last'.rolled]_vars

\* the enemy's first step, of 6.25 s, overshot its timer by 0.25 s,
\* re-rolled, completed and left the timer at 6 s
C19_Witness ==
    /\ last.op = "enemy_step" /\ last.arg = BigDt /\ last.rolled
    /\ BigDt > Sec(6)
    /\ nsteps["enemy"] = 1
    /\ err = "none"
    /\ ai.action_timer = Sec(6)

====
